---- MODULE Spec2Model ----
(***************************************************************************)
(* Model of CCopy 2.1.1 (src/ccopy.py): the orchestrator main(), the       *)
(* worker closure and copy_file, over an abstract POSIX destination tree.  *)
(*                                                                         *)
(* File names are sequences of name components; the temporary name of a    *)
(* destination is the name with the component ".ccopy_tmp" appended, which *)
(* is what Path.with_suffix(dst.suffix + ".ccopy_tmp") yields.  File       *)
(* content is a sequence of units (one unit = 1 MiB); a read of `buffer`   *)
(* MiB returns the next min(buffer, remaining) units.  A digest is         *)
(* modelled as an injective tag of the content (collision resistance).     *)
(* Rename and unlink follow POSIX: a writer whose path is replaced keeps   *)
(* writing to the detached file.                                           *)
(***************************************************************************)
EXTENDS Integers, Sequences, FiniteSets, TLC

\* ---------------------------------------------------------------- bounds
MaxSize == 1        \* largest source file, in MiB units
MaxThreads == 2     \* the --threads values tried are 1 and MaxThreads
MaxFaults == 1      \* injected primitive failures per behaviour
MaxExtra == 1       \* entries beyond MAX_SAMPLE_FILES in a sample_files input

\* ------------------------------------------------------- program constants
MAX_SAMPLE_BYTES == 1024   \* 1 * 1024**3 bytes, in MiB units
MAX_SAMPLE_FILES == 100
DEFAULT_BUFFER_MB == 1
MtimeTolerance == 2
TmpSuffix == ".ccopy_tmp"

\* ------------------------------------------------------ environment values
SrcMtime == 10      \* modification time of every source file
Now == 20           \* wall-clock time stamped on a freshly written file
Absent == [kind |-> "absent"]

NameA == <<"a">>
NameAT == <<"a", TmpSuffix>>
NameB == <<"b">>

\* source trees in os.walk order (names only)
Walks == { <<NameA, NameB>>, <<NameAT, NameA>> }

\* destination state of each file before the first run: "absent", "uptodate"
\* (same content, mtime one second off) or "stale" (other content, mtime two
\* seconds off)
PriorVectors ==
  { <<"absent", "absent">>, <<"uptodate", "uptodate">>,
    <<"stale", "absent">>, <<"uptodate", "stale">> }

\* tmp = dst.with_suffix(dst.suffix + ".ccopy_tmp")
TmpPath(p) == Append(p, TmpSuffix)

Names == {NameA, NameAT, NameB}
Paths == Names \cup {TmpPath(n) : n \in Names}

\* content of the source file `name` of `size` units
SrcContent(name, size) == [i \in 1..size |-> <<name, i>>]

\* hashlib.sha256 over a byte stream
sha256(content) == <<"sha256", content>>

FileEntry(content, mtime, tmpOf) ==
  [kind |-> "file", content |-> content, mtime |-> mtime, tmpOf |-> tmpOf]

VARIABLES
  args,          \* argparse namespace
  pathsOK,       \* environment: source root exists, is a directory, dest not inside it
  walk,          \* source tree: sequence of [name, size] in traversal order
  srcPresent,    \* names of the source files still on disk
  dstTree,       \* destination tree: path -> file entry or Absent
  tree0,         \* history: destination tree when the current run started
  run,           \* 1 = first invocation, 2 = second invocation
  pcMain,        \* position of main()
  files,         \* result of collect_files
  total_bytes,
  pc,            \* position of each worker task
  res,           \* value returned by copy_file per task (-1 = not returned)
  pos,           \* units read from the source so far, per task
  detached,      \* per task: the open tmp descriptor no longer has a path
  skipReg,       \* per task: value of skipped_count loaded by `skipped_count += 1`
  lock,          \* holder of the global lock (0 = free)
  progress,      \* total.n of the COPY progress bar
  copied,        \* list of task indices appended by worker
  success_count, fail_count, skipped_count,
  loopIdx,       \* index into copied for the verify-after and move loops
  verifyErr,     \* tasks for which post-copy verification logged an error
  prompts,       \* number of calls of ask()
  sample,        \* result of sample_files: the benchmark sample
  sample_bytes,  \* result of sample_files: its byte total
  recommended,   \* selections derived by the BENCHMARK section: <<label, threads, buffer>>
  faults         \* injected primitive failures so far

vars == <<args, pathsOK, walk, srcPresent, dstTree, tree0, run, pcMain, files,
          total_bytes, pc, res, pos, detached, skipReg, lock, progress, copied,
          success_count, fail_count, skipped_count, loopIdx, verifyErr,
          prompts, sample, sample_bytes, recommended, faults>>

envVars == <<pathsOK, walk>>
ioVars == <<prompts, sample, sample_bytes, recommended>>
taskVars == <<pc, res, pos, detached, skipReg>>
countVars == <<success_count, fail_count, skipped_count>>

Tasks == 1..Len(files)
Dst(f) == files[f].name
Tmp(f) == TmpPath(files[f].name)
Exists(p) == dstTree[p] # Absent

\* ------------------------------------------------------------------ Init
ArgSpace ==
  [dry_run : BOOLEAN, benchmark : BOOLEAN, ask : BOOLEAN, auto : BOOLEAN,
   verify : BOOLEAN, verify_after : BOOLEAN, move : BOOLEAN, update : BOOLEAN,
   threads : {1, MaxThreads}, buffer : {DEFAULT_BUFFER_MB}]

PriorEntry(name, size, prior) ==
  CASE prior = "absent" -> Absent
    [] prior = "uptodate" -> FileEntry(SrcContent(name, size), SrcMtime + 1, 0)
    [] prior = "stale" -> FileEntry(<<"old">>, SrcMtime + MtimeTolerance, 0)

InitTree(w, pv) ==
  [p \in Paths |->
     IF \E i \in 1..Len(w) : w[i].name = p
       THEN LET i == CHOOSE i \in 1..Len(w) : w[i].name = p
            IN PriorEntry(p, w[i].size, pv[i])
       ELSE Absent]

Init ==
  /\ args \in ArgSpace
  /\ pathsOK \in BOOLEAN
  /\ \E w \in Walks, sz \in [1..2 -> 0..MaxSize] :
       walk = [i \in 1..Len(w) |-> [name |-> w[i], size |-> sz[i]]]
  /\ srcPresent = {walk[i].name : i \in 1..Len(walk)}
  /\ \E pv \in PriorVectors : dstTree = InitTree(walk, pv)
  /\ tree0 = dstTree
  /\ run = 1
  /\ pcMain = "start"
  /\ files = <<>>
  /\ total_bytes = 0
  /\ pc = <<>> /\ res = <<>> /\ pos = <<>> /\ detached = <<>> /\ skipReg = <<>>
  /\ lock = 0
  /\ progress = 0
  /\ copied = <<>>
  /\ success_count = 0 /\ fail_count = 0 /\ skipped_count = 0
  /\ loopIdx = 0
  /\ verifyErr = {}
  /\ prompts = 0
  /\ sample = <<>> /\ sample_bytes = 0
  /\ recommended = {}
  /\ faults = 0

\* ------------------------------------------------------- orchestrator head
\* validate_args: parser.error exits; --move without verification forces
\* --verify-after
ValidateArgs ==
  /\ pcMain = "start"
  /\ IF \/ args.verify /\ args.verify_after
        \/ args.ask /\ ~args.benchmark
        \/ args.auto /\ args.ask
       THEN /\ pcMain' = "usage_error"
            /\ args' = args
       ELSE /\ pcMain' = "check_paths"
            /\ args' = IF args.move /\ ~(args.verify \/ args.verify_after)
                         THEN [args EXCEPT !.verify_after = TRUE]
                         ELSE args
  /\ UNCHANGED <<envVars, srcPresent, dstTree, tree0, run, files, total_bytes,
                 taskVars, lock, progress, copied, countVars, loopIdx,
                 verifyErr, ioVars, faults>>

\* check_paths: fatal() on a missing source or a destination inside it
CheckPaths ==
  /\ pcMain = "check_paths"
  /\ pcMain' = IF pathsOK THEN "scan" ELSE "fatal"
  /\ UNCHANGED <<args, envVars, srcPresent, dstTree, tree0, run, files,
                 total_bytes, taskVars, lock, progress, copied, countVars,
                 loopIdx, verifyErr, ioVars, faults>>

\* collect_files: every file still on disk, in traversal order
collect_files == SelectSeq(walk, LAMBDA e : e.name \in srcPresent)

RECURSIVE SumSizes(_)
SumSizes(s) ==
  IF s = <<>> THEN 0
  ELSE IF Len(s) = 1 THEN s[1].size
  ELSE LET h == Len(s) \div 2
       IN SumSizes(SubSeq(s, 1, h)) + SumSizes(SubSeq(s, h + 1, Len(s)))

\* mutant of SampleStep: an entry that reaches the byte cap exactly is excluded
SampleStep_CapExclusive(entries, i, smp, total) ==
  IF total + entries[i].size >= MAX_SAMPLE_BYTES
    THEN [smp |-> smp, total |-> total, brk |-> TRUE]
    ELSE [smp |-> Append(smp, entries[i]), total |-> total + entries[i].size,
          brk |-> Len(smp) + 1 >= MAX_SAMPLE_FILES]

\* sample_files, one iteration of the for loop on entry i, with the sample
\* and the total accumulated so far; brk tells whether the loop breaks
SampleStep(entries, i, smp, total) ==
  IF total + entries[i].size > MAX_SAMPLE_BYTES
    THEN [smp |-> smp, total |-> total, brk |-> TRUE]
    ELSE [smp |-> Append(smp, entries[i]), total |-> total + entries[i].size,
          brk |-> Len(smp) + 1 >= MAX_SAMPLE_FILES]

\* sample_files, the for loop from entry i on
RECURSIVE SampleLoop(_, _, _, _)
SampleLoop(entries, i, smp, total) ==
  IF i > Len(entries) THEN <<smp, total>>
  ELSE LET r == SampleStep(entries, i, smp, total)
       IN IF r.brk THEN <<r.smp, r.total>>
          ELSE SampleLoop(entries, i + 1, r.smp, r.total)

\* sample_files(file_entries): returns (sample, total)
sample_files(entries) == SampleLoop(entries, 1, <<>>, 0)

\* main, SCAN: enumerate, total the sizes, exit when nothing was found;
\* otherwise take the benchmark sample
Scan ==
  /\ pcMain = "scan"
  /\ files' = collect_files
  /\ total_bytes' = SumSizes(collect_files)
  /\ pcMain' = IF collect_files = <<>> THEN "no_files" ELSE "scanned"
  /\ sample' = IF collect_files = <<>> THEN sample ELSE sample_files(collect_files)[1]
  /\ sample_bytes' = IF collect_files = <<>> THEN sample_bytes
                                             ELSE sample_files(collect_files)[2]
  /\ UNCHANGED <<args, envVars, srcPresent, dstTree, tree0, run, taskVars,
                 lock, progress, copied, countVars, loopIdx, verifyErr,
                 prompts, recommended, faults>>

\* main, DRY RUN: print the summary and exit
DryRun ==
  /\ pcMain = "scanned"
  /\ args.dry_run
  /\ pcMain' = "dry_done"
  /\ UNCHANGED <<args, envVars, srcPresent, dstTree, tree0, run, files,
                 total_bytes, taskVars, lock, progress, copied, countVars,
                 loopIdx, verifyErr, ioVars, faults>>

\* the benchmark grid: for t in (1, 2, 4): for b in (1, 2)
Grid == << <<1, 1>>, <<1, 2>>, <<2, 1>>, <<2, 2>>, <<4, 1>>, <<4, 2>> >>

Abs(x) == IF x < 0 THEN -x ELSE x
SafeKey(c) == Abs(c[1] - 2) + Abs(c[2] - 2)

\* min(iterable, key=...): an element replaces the best so far only when its
\* key is strictly smaller
RECURSIVE MinFrom(_, _)
MinFrom(s, best) ==
  IF s = <<>> THEN best
  ELSE IF SafeKey(Head(s)) < SafeKey(best) THEN MinFrom(Tail(s), Head(s))
  ELSE MinFrom(Tail(s), best)

\* mutant of MinByKey: the first element with the highest measured speed
RECURSIVE MaxSpeedFrom(_, _)
MaxSpeedFrom(s, best) ==
  IF s = <<>> THEN best
  ELSE IF Head(s)[3] > best[3] THEN MaxSpeedFrom(Tail(s), Head(s))
  ELSE MaxSpeedFrom(Tail(s), best)
MinByKey_BySpeed(s) == MaxSpeedFrom(Tail(s), Head(s))

\* safe = min(results, key=lambda x: abs(x[0]-2) + abs(x[1]-2))
MinByKey(s) == MinFrom(Tail(s), Head(s))

\* MB/s values benchmark() can return; a sample of zero bytes measures 0
Speeds == {0, 1}
benchmark(smp_bytes) == IF smp_bytes = 0 THEN {0} ELSE Speeds

\* results after the grid loop, with the speeds sp measured per combination
Results(sp) == [i \in 1..Len(Grid) |-> <<Grid[i][1], Grid[i][2], sp[i]>>]

\* main, BENCHMARK / AUTO: reads the sample only; auto adopts the safe point.
\* Control always continues to the COPY section.
Benchmark ==
  /\ pcMain = "scanned"
  /\ ~args.dry_run
  /\ args.benchmark \/ args.auto
  /\ \E sp \in [1..Len(Grid) -> benchmark(sample_bytes)] :
       LET safe == MinByKey(Results(sp))
       IN /\ args' = IF args.auto
                       THEN [args EXCEPT !.threads = safe[1], !.buffer = safe[2],
                                         !.verify_after = TRUE]
                       ELSE args
          /\ recommended' = {<<"safe", safe[1], safe[2]>>}
  /\ pcMain' = "copy"
  /\ UNCHANGED <<envVars, srcPresent, dstTree, tree0, run, files, total_bytes,
                 taskVars, lock, progress, copied, countVars, loopIdx,
                 verifyErr, prompts, sample, sample_bytes, faults>>

\* mutant of NoBenchmark: the dry-run exit is missing
NoBenchmark_IgnoresDryRun ==
  /\ pcMain = "scanned"
  /\ ~(args.benchmark \/ args.auto)
  /\ pcMain' = "copy"
  /\ UNCHANGED <<args, envVars, srcPresent, dstTree, tree0, run, files,
                 total_bytes, taskVars, lock, progress, copied, countVars,
                 loopIdx, verifyErr, ioVars, faults>>

\* main without --benchmark and --auto: straight to the COPY section
NoBenchmark ==
  /\ pcMain = "scanned"
  /\ ~args.dry_run
  /\ ~(args.benchmark \/ args.auto)
  /\ pcMain' = "copy"
  /\ UNCHANGED <<args, envVars, srcPresent, dstTree, tree0, run, files,
                 total_bytes, taskVars, lock, progress, copied, countVars,
                 loopIdx, verifyErr, ioVars, faults>>

\* ask(prompt): input(prompt).strip().lower() in ("", "y", "yes"); a
\* KeyboardInterrupt answers False.  main() never calls it.
StripLower(ans) ==
  CASE ans = " Y" -> "y"
    [] ans = "Yes " -> "yes"
    [] ans = "NO" -> "no"
    [] OTHER -> ans
ask(ans) == IF ans = "KeyboardInterrupt" THEN FALSE ELSE StripLower(ans) \in {"", "y", "yes"}

\* main, COPY: reset the counters, open the progress bar, submit every file
StartCopy ==
  /\ pcMain = "copy"
  /\ pcMain' = "pool"
  /\ pc' = [f \in Tasks |-> "pending"]
  /\ res' = [f \in Tasks |-> -1]
  /\ pos' = [f \in Tasks |-> 0]
  /\ detached' = [f \in Tasks |-> FALSE]
  /\ skipReg' = [f \in Tasks |-> 0]
  /\ copied' = <<>>
  /\ progress' = 0
  /\ success_count' = 0 /\ fail_count' = 0 /\ skipped_count' = 0
  /\ UNCHANGED <<args, envVars, srcPresent, dstTree, tree0, run, files,
                 total_bytes, lock, loopIdx, verifyErr, ioVars, faults>>

\* ------------------------------------------------------------ worker tasks
Running(f) == pc[f] \notin {"pending", "done", "raised", "cancelled"}
SrcOf(f) == SrcContent(files[f].name, files[f].size)
Min(a, b) == IF a < b THEN a ELSE b
InjectFault == faults < MaxFaults /\ faults' = faults + 1
NoFault == faults' = faults

\* ThreadPoolExecutor: work items are taken in submission order by at most
\* args.threads threads
TaskStart(f) ==
  /\ pcMain \in {"pool"}
  /\ pc[f] = "pending"
  /\ \A g \in Tasks : g < f => pc[g] # "pending"
  /\ Cardinality({g \in Tasks : Running(g)}) < args.threads
  /\ pc' = [pc EXCEPT ![f] = "prep"]
  /\ UNCHANGED <<args, envVars, srcPresent, dstTree, tree0, run, pcMain, files,
                 total_bytes, res, pos, detached, skipReg, lock, progress,
                 copied, countVars, loopIdx, verifyErr, ioVars, faults>>

\* copy_file: dst.parent.mkdir(...); src_stat = src.stat()  -- not inside the
\* try block: a failure propagates out of copy_file and out of worker
Prep(f) ==
  /\ pc[f] = "prep"
  /\ \/ /\ NoFault
        /\ pc' = [pc EXCEPT ![f] = IF args.update THEN "check" ELSE "open"]
     \/ /\ InjectFault
        /\ pc' = [pc EXCEPT ![f] = "raised"]
  /\ UNCHANGED <<args, envVars, srcPresent, dstTree, tree0, run, pcMain, files,
                 total_bytes, res, pos, detached, skipReg, lock, progress,
                 copied, countVars, loopIdx, verifyErr, ioVars>>

\* dst_stat.st_size == size and abs(src_stat.st_mtime - dst_stat.st_mtime) < 2.0
UpToDate(entry, size) ==
  /\ Len(entry.content) = size
  /\ Abs(SrcMtime - entry.mtime) < MtimeTolerance

\* copy_file: the --update check; an OSError of dst.stat() falls through to
\* the normal copy
UpdateCheck(f) ==
  /\ pc[f] = "check"
  /\ \/ /\ NoFault
        /\ pc' = [pc EXCEPT ![f] =
                    IF Exists(Dst(f)) /\ UpToDate(dstTree[Dst(f)], files[f].size)
                      THEN "skip_lock" ELSE "open"]
     \/ /\ Exists(Dst(f))
        /\ InjectFault
        /\ pc' = [pc EXCEPT ![f] = "open"]
  /\ UNCHANGED <<args, envVars, srcPresent, dstTree, tree0, run, pcMain, files,
                 total_bytes, res, pos, detached, skipReg, lock, progress,
                 copied, countVars, loopIdx, verifyErr, ioVars>>

\* copy_file, skip branch: with lock:
SkipLock(f) ==
  /\ pc[f] = "skip_lock"
  /\ lock = 0
  /\ lock' = f
  /\ pc' = [pc EXCEPT ![f] = "skip_adv"]
  /\ UNCHANGED <<args, envVars, srcPresent, dstTree, tree0, run, pcMain, files,
                 total_bytes, res, pos, detached, skipReg, progress, copied,
                 countVars, loopIdx, verifyErr, ioVars, faults>>

\* copy_file, skip branch: total_bar.update(size); release; return 2
SkipAdvance(f) ==
  /\ pc[f] = "skip_adv"
  /\ progress' = progress + files[f].size
  /\ lock' = 0
  /\ res' = [res EXCEPT ![f] = 2]
  /\ pc' = [pc EXCEPT ![f] = "w_skip_load"]
  /\ UNCHANGED <<args, envVars, srcPresent, dstTree, tree0, run, pcMain, files,
                 total_bytes, pos, detached, skipReg, copied, countVars,
                 loopIdx, verifyErr, ioVars, faults>>

\* worker: skipped_count += 1 -- the load of the nonlocal
WorkerSkipLoad(f) ==
  /\ pc[f] = "w_skip_load"
  /\ skipReg' = [skipReg EXCEPT ![f] = skipped_count]
  /\ pc' = [pc EXCEPT ![f] = "w_skip_store"]
  /\ UNCHANGED <<args, envVars, srcPresent, dstTree, tree0, run, pcMain, files,
                 total_bytes, res, pos, detached, lock, progress, copied,
                 countVars, loopIdx, verifyErr, ioVars, faults>>

\* mutant of WorkerSkipStore: the Skipped branch also records the pair
WorkerSkipStore_AlsoAppends(f) ==
  /\ pc[f] = "w_skip_store"
  /\ skipped_count' = skipReg[f] + 1
  /\ skipReg' = [skipReg EXCEPT ![f] = 0]
  /\ copied' = Append(copied, f)
  /\ pc' = [pc EXCEPT ![f] = "done"]
  /\ UNCHANGED <<args, envVars, srcPresent, dstTree, tree0, run, pcMain, files,
                 total_bytes, res, pos, detached, lock, progress,
                 success_count, fail_count, loopIdx, verifyErr, ioVars, faults>>

\* worker: skipped_count += 1 -- the store; return 2
WorkerSkipStore(f) ==
  /\ pc[f] = "w_skip_store"
  /\ skipped_count' = skipReg[f] + 1
  /\ skipReg' = [skipReg EXCEPT ![f] = 0]
  /\ pc' = [pc EXCEPT ![f] = "done"]
  /\ UNCHANGED <<args, envVars, srcPresent, dstTree, tree0, run, pcMain, files,
                 total_bytes, res, pos, detached, lock, progress, copied,
                 success_count, fail_count, loopIdx, verifyErr, ioVars, faults>>

\* copy_file: tmp = ...; with open(src, "rb") as fs, open(tmp, "wb") as fd
\* open(tmp, "wb") creates the file or truncates the one already at that path
OpenFiles(f) ==
  /\ pc[f] = "open"
  /\ \/ /\ NoFault
        /\ dstTree' = [dstTree EXCEPT ![Tmp(f)] = FileEntry(<<>>, Now, f)]
        /\ pc' = [pc EXCEPT ![f] = IF files[f].size = 0 THEN "replace" ELSE "chunk"]
     \/ /\ InjectFault
        /\ dstTree' = dstTree
        /\ pc' = [pc EXCEPT ![f] = "cleanup"]
  /\ pos' = [pos EXCEPT ![f] = 0]
  /\ detached' = [detached EXCEPT ![f] = FALSE]
  /\ UNCHANGED <<args, envVars, srcPresent, tree0, run, pcMain, files,
                 total_bytes, res, skipReg, lock, progress, copied, countVars,
                 loopIdx, verifyErr, ioVars>>

\* the units returned by fs.read(buf) at offset p
NextChunk(f, p) == SubSeq(SrcOf(f), p + 1, Min(p + args.buffer, files[f].size))

\* mutant of CopyChunk: the chunks are written to the destination path
\* itself instead of the temporary file
CopyChunk_WritesDst(f) ==
  /\ pc[f] = "chunk"
  /\ \/ /\ NoFault
        /\ dstTree' =
             [dstTree EXCEPT ![Dst(f)] =
                FileEntry(SubSeq(SrcOf(f), 1, pos[f]) \o NextChunk(f, pos[f]),
                          Now, 0)]
        /\ pos' = [pos EXCEPT ![f] = pos[f] + Len(NextChunk(f, pos[f]))]
        /\ pc' = [pc EXCEPT ![f] = "chunk_lock"]
        /\ detached' = detached
     \/ /\ InjectFault
        /\ dstTree' = dstTree
        /\ pos' = pos
        /\ detached' = [detached EXCEPT ![f] = FALSE]
        /\ pc' = [pc EXCEPT ![f] = "cleanup"]
  /\ UNCHANGED <<args, envVars, srcPresent, tree0, run, pcMain, files,
                 total_bytes, res, skipReg, lock, progress, copied, countVars,
                 loopIdx, verifyErr, ioVars>>

\* copy_file: chunk := fs.read(buf); fd.write(chunk); h.update(chunk)
CopyChunk(f) ==
  /\ pc[f] = "chunk"
  /\ \/ /\ NoFault
        /\ dstTree' =
             IF detached[f] THEN dstTree
             ELSE [dstTree EXCEPT ![Tmp(f)] =
                     FileEntry(dstTree[Tmp(f)].content \o NextChunk(f, pos[f]),
                               Now, f)]
        /\ pos' = [pos EXCEPT ![f] = pos[f] + Len(NextChunk(f, pos[f]))]
        /\ pc' = [pc EXCEPT ![f] = "chunk_lock"]
        /\ detached' = detached
     \/ /\ InjectFault
        /\ dstTree' = dstTree
        /\ pos' = pos
        /\ detached' = [detached EXCEPT ![f] = FALSE]
        /\ pc' = [pc EXCEPT ![f] = "cleanup"]
  /\ UNCHANGED <<args, envVars, srcPresent, tree0, run, pcMain, files,
                 total_bytes, res, skipReg, lock, progress, copied, countVars,
                 loopIdx, verifyErr, ioVars>>

\* mutant of ChunkLock: the copy loop advances the bar without taking the lock
ChunkLock_NoAcquire(f) ==
  /\ pc[f] = "chunk_lock"
  /\ lock' = lock
  /\ pc' = [pc EXCEPT ![f] = "chunk_adv"]
  /\ UNCHANGED <<args, envVars, srcPresent, dstTree, tree0, run, pcMain, files,
                 total_bytes, res, pos, detached, skipReg, progress, copied,
                 countVars, loopIdx, verifyErr, ioVars, faults>>

\* copy_file, copy loop: with lock:
ChunkLock(f) ==
  /\ pc[f] = "chunk_lock"
  /\ lock = 0
  /\ lock' = f
  /\ pc' = [pc EXCEPT ![f] = "chunk_adv"]
  /\ UNCHANGED <<args, envVars, srcPresent, dstTree, tree0, run, pcMain, files,
                 total_bytes, res, pos, detached, skipReg, progress, copied,
                 countVars, loopIdx, verifyErr, ioVars, faults>>

\* len(chunk) of the chunk that ended at offset p
LastChunkLen(p, buf) == IF p % buf = 0 THEN buf ELSE p % buf

\* copy_file, copy loop: total_bar.update(len(chunk)); release; next read,
\* or leave the with block (both files closed) at end of file
ChunkAdvance(f) ==
  /\ pc[f] = "chunk_adv"
  /\ progress' = progress + LastChunkLen(pos[f], args.buffer)
  /\ lock' = 0
  /\ pc' = [pc EXCEPT ![f] = IF pos[f] < files[f].size THEN "chunk" ELSE "replace"]
  /\ detached' = [detached EXCEPT ![f] = IF pos[f] < files[f].size THEN @ ELSE FALSE]
  /\ UNCHANGED <<args, envVars, srcPresent, dstTree, tree0, run, pcMain, files,
                 total_bytes, res, pos, skipReg, copied, countVars, loopIdx,
                 verifyErr, ioVars, faults>>

\* tasks that hold an open descriptor on path p
Writers(p) == {g \in Tasks : Tmp(g) = p /\ pc[g] \in {"chunk", "chunk_lock", "chunk_adv"}}

\* copy_file: tmp.replace(dst) -- rename(2): the file at tmp takes the place
\* of whatever is at dst; a writer of the replaced file is left detached
Replace(f) ==
  /\ pc[f] = "replace"
  /\ \/ /\ Exists(Tmp(f))
        /\ NoFault
        /\ dstTree' = [dstTree EXCEPT
                         ![Dst(f)] = [dstTree[Tmp(f)] EXCEPT !.tmpOf = 0],
                         ![Tmp(f)] = Absent]
        /\ detached' = [g \in Tasks |-> IF g \in Writers(Dst(f)) THEN TRUE ELSE detached[g]]
        /\ pc' = [pc EXCEPT ![f] = "utime"]
     \/ /\ \/ ~Exists(Tmp(f)) /\ NoFault
           \/ InjectFault
        /\ dstTree' = dstTree
        /\ detached' = detached
        /\ pc' = [pc EXCEPT ![f] = "cleanup"]
  /\ UNCHANGED <<args, envVars, srcPresent, tree0, run, pcMain, files,
                 total_bytes, res, pos, skipReg, lock, progress, copied,
                 countVars, loopIdx, verifyErr, ioVars>>

\* copy_file: os.utime(dst, (src_stat.st_atime, src_stat.st_mtime)); without
\* --verify this is followed by return 1
Utime(f) ==
  /\ pc[f] = "utime"
  /\ \/ /\ Exists(Dst(f))
        /\ NoFault
        /\ dstTree' = [dstTree EXCEPT ![Dst(f)].mtime = SrcMtime]
        /\ pc' = [pc EXCEPT ![f] = IF args.verify THEN "verify" ELSE "w_append"]
        /\ res' = [res EXCEPT ![f] = IF args.verify THEN @ ELSE 1]
     \/ /\ \/ ~Exists(Dst(f)) /\ NoFault
           \/ InjectFault
        /\ dstTree' = dstTree
        /\ pc' = [pc EXCEPT ![f] = "cleanup"]
        /\ res' = res
  /\ UNCHANGED <<args, envVars, srcPresent, tree0, run, pcMain, files,
                 total_bytes, pos, detached, skipReg, lock, progress, copied,
                 countVars, loopIdx, verifyErr, ioVars>>

\* h.hexdigest() after the copy loop: the digest of everything read
InlineDigest(f) == sha256(SubSeq(SrcOf(f), 1, pos[f]))

\* copy_file: if h.hexdigest() != sha256_stream(dst, buf): raise; return 1
InlineVerify(f) ==
  /\ pc[f] = "verify"
  /\ \/ /\ Exists(Dst(f))
        /\ InlineDigest(f) = sha256(dstTree[Dst(f)].content)
        /\ NoFault
        /\ pc' = [pc EXCEPT ![f] = "w_append"]
        /\ res' = [res EXCEPT ![f] = 1]
     \/ /\ \/ /\ ~(Exists(Dst(f)) /\ InlineDigest(f) = sha256(dstTree[Dst(f)].content))
              /\ NoFault
           \/ InjectFault
        /\ pc' = [pc EXCEPT ![f] = "cleanup"]
        /\ res' = res
  /\ UNCHANGED <<args, envVars, srcPresent, dstTree, tree0, run, pcMain, files,
                 total_bytes, pos, detached, skipReg, lock, progress, copied,
                 countVars, loopIdx, verifyErr, ioVars>>

\* worker: copied.append((src, dst)); return 1
WorkerAppend(f) ==
  /\ pc[f] = "w_append"
  /\ copied' = Append(copied, f)
  /\ pc' = [pc EXCEPT ![f] = "done"]
  /\ UNCHANGED <<args, envVars, srcPresent, dstTree, tree0, run, pcMain, files,
                 total_bytes, res, pos, detached, skipReg, lock, progress,
                 countVars, loopIdx, verifyErr, ioVars, faults>>

\* mutant of Cleanup: the except branch returns 0 without removing tmp
Cleanup_KeepsTmp(f) ==
  /\ pc[f] = "cleanup"
  /\ NoFault
  /\ res' = [res EXCEPT ![f] = 0]
  /\ pc' = [pc EXCEPT ![f] = "done"]
  /\ UNCHANGED <<args, envVars, srcPresent, dstTree, tree0, run, pcMain, files,
                 total_bytes, pos, detached, skipReg, lock, progress, copied,
                 countVars, loopIdx, verifyErr, ioVars>>

\* copy_file, except branch: if tmp.exists(): tmp.unlink(missing_ok=True);
\* return 0.  A failing unlink raises out of the handler.
Cleanup(f) ==
  /\ pc[f] = "cleanup"
  /\ \/ /\ NoFault
        /\ dstTree' = [dstTree EXCEPT ![Tmp(f)] = Absent]
        /\ res' = [res EXCEPT ![f] = 0]
        /\ pc' = [pc EXCEPT ![f] = "done"]
     \/ /\ Exists(Tmp(f))
        /\ InjectFault
        /\ dstTree' = dstTree
        /\ res' = res
        /\ pc' = [pc EXCEPT ![f] = "raised"]
  /\ UNCHANGED <<args, envVars, srcPresent, tree0, run, pcMain, files,
                 total_bytes, pos, detached, skipReg, lock, progress, copied,
                 countVars, loopIdx, verifyErr, ioVars>>

TaskStep(f) ==
  /\ pcMain \in {"pool", "aborting"}
  /\ \/ TaskStart(f)
     \/ Prep(f)
     \/ UpdateCheck(f)
     \/ SkipLock(f)
     \/ SkipAdvance(f)
     \/ WorkerSkipLoad(f)
     \/ WorkerSkipStore(f)
     \/ OpenFiles(f)
     \/ CopyChunk(f)
     \/ ChunkLock(f)
     \/ ChunkAdvance(f)
     \/ Replace(f)
     \/ Utime(f)
     \/ InlineVerify(f)
     \/ WorkerAppend(f)
     \/ Cleanup(f)

\* ------------------------------------------------------- orchestrator tail
Count(v) == Cardinality({f \in Tasks : res[f] = v})

\* mutant of Join: main goes on as soon as one task has finished
Join_FirstDone ==
  /\ pcMain = "pool"
  /\ \E f \in Tasks : pc[f] = "done"
  /\ success_count' = Count(1)
  /\ fail_count' = Count(0)
  /\ loopIdx' = 1
  /\ pcMain' = "verify_after"
  /\ UNCHANGED <<args, envVars, srcPresent, dstTree, tree0, run, files,
                 total_bytes, taskVars, lock, progress, copied, skipped_count,
                 verifyErr, ioVars, faults>>

\* main: results = list(ex.map(worker, files)); success_count and fail_count
\* are counted from the returned values once every task has returned
Join ==
  /\ pcMain = "pool"
  /\ \A f \in Tasks : pc[f] = "done"
  /\ success_count' = Count(1)
  /\ fail_count' = Count(0)
  /\ loopIdx' = 1
  /\ pcMain' = "verify_after"
  /\ UNCHANGED <<args, envVars, srcPresent, dstTree, tree0, run, files,
                 total_bytes, taskVars, lock, progress, copied, skipped_count,
                 verifyErr, ioVars, faults>>

\* main: the result iterator re-raises the exception of the first task (in
\* submission order) that raised, and cancels every task not yet started
PoolRaise ==
  /\ pcMain = "pool"
  /\ \E f \in Tasks : /\ pc[f] = "raised"
                      /\ \A g \in Tasks : g < f => pc[g] = "done"
  /\ pc' = [f \in Tasks |-> IF pc[f] = "pending" THEN "cancelled" ELSE pc[f]]
  /\ pcMain' = "aborting"
  /\ UNCHANGED <<args, envVars, srcPresent, dstTree, tree0, run, files,
                 total_bytes, res, pos, detached, skipReg, lock, progress,
                 copied, countVars, loopIdx, verifyErr, ioVars, faults>>

\* main: the executor's __exit__ waits for the running tasks, then the
\* exception leaves main(): no verification, no move, no report
Crash ==
  /\ pcMain = "aborting"
  /\ \A f \in Tasks : ~Running(f)
  /\ pcMain' = "crashed"
  /\ UNCHANGED <<args, envVars, srcPresent, dstTree, tree0, run, files,
                 total_bytes, taskVars, lock, progress, copied, countVars,
                 loopIdx, verifyErr, ioVars, faults>>

\* sha256_stream(src, buf) != sha256_stream(dst, buf), or an OSError of
\* either read
PostVerifyFails(f) ==
  \/ ~Exists(Dst(f))
  \/ sha256(SrcOf(f)) # sha256(dstTree[Dst(f)].content)

\* main, VERIFY AFTER: one iteration of the loop over copied; a mismatch or
\* an OSError is logged and the loop goes on
VerifyAfterStep ==
  /\ pcMain = "verify_after"
  /\ args.verify_after
  /\ loopIdx <= Len(copied)
  /\ \/ /\ NoFault
        /\ verifyErr' = IF PostVerifyFails(copied[loopIdx])
                          THEN verifyErr \cup {copied[loopIdx]} ELSE verifyErr
     \/ /\ InjectFault
        /\ verifyErr' = verifyErr \cup {copied[loopIdx]}
  /\ loopIdx' = loopIdx + 1
  /\ UNCHANGED <<args, envVars, srcPresent, dstTree, tree0, run, pcMain, files,
                 total_bytes, taskVars, lock, progress, copied, countVars,
                 ioVars>>

\* main: the VERIFY AFTER section is over (or was not entered)
VerifyAfterDone ==
  /\ pcMain = "verify_after"
  /\ ~args.verify_after \/ loopIdx > Len(copied)
  /\ loopIdx' = 1
  /\ pcMain' = "move"
  /\ UNCHANGED <<args, envVars, srcPresent, dstTree, tree0, run, files,
                 total_bytes, taskVars, lock, progress, copied, countVars,
                 verifyErr, ioVars, faults>>

\* mutant of MoveStep: a pair whose post-copy verification was logged as
\* failed keeps its source
MoveStep_SkipsUnverified ==
  /\ pcMain = "move"
  /\ args.move
  /\ loopIdx <= Len(copied)
  /\ \/ /\ NoFault
        /\ srcPresent' = IF copied[loopIdx] \in verifyErr
                           THEN srcPresent
                           ELSE srcPresent \ {files[copied[loopIdx]].name}
     \/ /\ InjectFault
        /\ srcPresent' = srcPresent
  /\ loopIdx' = loopIdx + 1
  /\ UNCHANGED <<args, envVars, dstTree, tree0, run, pcMain, files,
                 total_bytes, taskVars, lock, progress, copied, countVars,
                 verifyErr, ioVars>>

\* main, MOVE: src.unlink() of one copied pair; an OSError is logged
MoveStep ==
  /\ pcMain = "move"
  /\ args.move
  /\ loopIdx <= Len(copied)
  /\ \/ /\ NoFault
        /\ srcPresent' = srcPresent \ {files[copied[loopIdx]].name}
     \/ /\ InjectFault
        /\ srcPresent' = srcPresent
  /\ loopIdx' = loopIdx + 1
  /\ UNCHANGED <<args, envVars, dstTree, tree0, run, pcMain, files,
                 total_bytes, taskVars, lock, progress, copied, countVars,
                 verifyErr, ioVars>>

\* main: print("Done. Copied: ..., Skipped: ..., Failed: ...")
Report ==
  /\ pcMain = "move"
  /\ ~args.move \/ loopIdx > Len(copied)
  /\ pcMain' = "done"
  /\ UNCHANGED <<args, envVars, srcPresent, dstTree, tree0, run, files,
                 total_bytes, taskVars, lock, progress, copied, countVars,
                 loopIdx, verifyErr, ioVars, faults>>

\* a second invocation with --update added, after a first one that copied
\* every file and left the source tree alone
Rerun ==
  /\ pcMain = "done"
  /\ run = 1
  /\ ~args.move
  /\ \A f \in Tasks : res[f] = 1
  /\ run' = 2
  /\ args' = [args EXCEPT !.update = TRUE]
  /\ tree0' = dstTree
  /\ pcMain' = "scan"
  /\ files' = <<>>
  /\ total_bytes' = 0
  /\ pc' = <<>> /\ res' = <<>> /\ pos' = <<>> /\ detached' = <<>> /\ skipReg' = <<>>
  /\ progress' = 0
  /\ copied' = <<>>
  /\ success_count' = 0 /\ fail_count' = 0 /\ skipped_count' = 0
  /\ loopIdx' = 0
  /\ verifyErr' = {}
  /\ sample' = <<>> /\ sample_bytes' = 0
  /\ recommended' = {}
  /\ UNCHANGED <<envVars, srcPresent, dstTree, lock, prompts, faults>>

Next ==
  \/ ValidateArgs
  \/ CheckPaths
  \/ Scan
  \/ DryRun
  \/ Benchmark
  \/ NoBenchmark
  \/ StartCopy
  \/ \E f \in Tasks : TaskStep(f)
  \/ Join
  \/ PoolRaise
  \/ Crash
  \/ VerifyAfterStep
  \/ VerifyAfterDone
  \/ MoveStep
  \/ Report
  \/ Rerun

Spec == Init /\ [][Next]_vars

\* ------------------------------------------- sample_files on its own inputs
\* entry lists handed to sample_files: a run of k entries of size a followed
\* by a run of j entries of size b, with lengths and sizes around both caps
RunLens == {0, 1, 2, MAX_SAMPLE_FILES - 1, MAX_SAMPLE_FILES,
            MAX_SAMPLE_FILES + MaxExtra}
EntrySizes == {0, 1, MAX_SAMPLE_BYTES \div 2, MAX_SAMPLE_BYTES - 1,
               MAX_SAMPLE_BYTES, MAX_SAMPLE_BYTES + 1}
SampleInput(k, a, j, b) ==
  [i \in 1..(k + j) |-> [name |-> <<"f", i>>, size |-> IF i <= k THEN a ELSE b]]

InitSample ==
  /\ args \in {a \in ArgSpace : a = [dry_run |-> FALSE, benchmark |-> TRUE,
                                     ask |-> FALSE, auto |-> FALSE,
                                     verify |-> FALSE, verify_after |-> FALSE,
                                     move |-> FALSE, update |-> FALSE,
                                     threads |-> 1, buffer |-> DEFAULT_BUFFER_MB]}
  /\ pathsOK = TRUE
  /\ walk = <<>>
  /\ srcPresent = {}
  /\ dstTree = [p \in Paths |-> Absent]
  /\ tree0 = dstTree
  /\ run = 1
  /\ pcMain = "sample_loop"
  /\ \E k, j \in RunLens, a, b \in EntrySizes : files = SampleInput(k, a, j, b)
  /\ total_bytes = SumSizes(files)
  /\ pc = <<>> /\ res = <<>> /\ pos = <<>> /\ detached = <<>> /\ skipReg = <<>>
  /\ lock = 0
  /\ progress = 0
  /\ copied = <<>>
  /\ success_count = 0 /\ fail_count = 0 /\ skipped_count = 0
  /\ loopIdx = 0
  /\ verifyErr = {}
  /\ prompts = 0
  /\ sample = <<>> /\ sample_bytes = 0
  /\ recommended = {}
  /\ faults = 0

\* sample_files(files), one loop iteration per step: loopIdx entries have been
\* visited, sample and sample_bytes hold the accumulated sample and total
SampleIter ==
  /\ pcMain = "sample_loop"
  /\ loopIdx < Len(files)
  /\ LET r == SampleStep(files, loopIdx + 1, sample, sample_bytes)
     IN /\ sample' = r.smp
        /\ sample_bytes' = r.total
        /\ pcMain' = IF r.brk THEN "sample_done" ELSE "sample_loop"
  /\ loopIdx' = loopIdx + 1
  /\ UNCHANGED <<args, envVars, srcPresent, dstTree, tree0, run, files,
                 total_bytes, taskVars, lock, progress, copied, countVars,
                 verifyErr, prompts, recommended, faults>>

\* the for loop ran out of entries: return sample, total
SampleReturn ==
  /\ pcMain = "sample_loop"
  /\ loopIdx = Len(files)
  /\ pcMain' = "sample_done"
  /\ UNCHANGED <<args, envVars, srcPresent, dstTree, tree0, run, files,
                 total_bytes, taskVars, lock, progress, copied, countVars,
                 loopIdx, verifyErr, ioVars, faults>>

NextSample ==
  \/ SampleIter
  \/ SampleReturn

SpecSample == InitSample /\ [][NextSample]_vars

\* list(ex.map(worker, files)) has returned every result
AllTasksDone == \A f \in Tasks : pc[f] = "done"

\* ------------------------------------------------------------- vocabulary
\* main() is in or past the COPY section: the task arrays are defined
Started == pcMain \in {"pool", "aborting", "crashed", "verify_after", "move", "done"}
InCopyPhase == pcMain \in {"pool", "aborting"}
\* some enumerated file is named like the temporary file of another one
Collision == \E i, j \in 1..Len(walk) : walk[j].name = TmpPath(walk[i].name)
ContentAt(tree, p) == IF tree[p] = Absent THEN <<"absent">> ELSE <<"file", tree[p].content>>
\* the file at the temporary path of task f was opened there by f's copy_file
\* and has been neither renamed nor removed since
TempExists(f) == Exists(Tmp(f)) /\ dstTree[Tmp(f)].tmpOf = f

\* C1: during the Copy phase every destination path holds its content from
\* before the run, or nothing, or the complete content of its source
C1_NoPartialDestination ==
  InCopyPhase =>
    \A f \in Tasks :
      \/ ~Exists(Dst(f))
      \/ ContentAt(dstTree, Dst(f)) = ContentAt(tree0, Dst(f))
      \/ dstTree[Dst(f)].content = SrcOf(f)

\* C1 restricted to source trees without a name collision
C1_NoPartialDestination_Distinct == ~Collision => C1_NoPartialDestination

\* C2: at the step in which copy_file returns Copied, the destination holds
\* exactly what the task read from its source
C2_CopiedMeansEqual ==
  [][ InCopyPhase /\ InCopyPhase' =>
        \A f \in Tasks :
          res[f] = -1 /\ res'[f] = 1 =>
            /\ dstTree'[Dst(f)] # Absent
            /\ dstTree'[Dst(f)].content = SubSeq(SrcOf(f), 1, pos[f]) ]_vars

C2_CopiedMeansEqual_Distinct ==
  [][ ~Collision /\ InCopyPhase /\ InCopyPhase' =>
        \A f \in Tasks :
          res[f] = -1 /\ res'[f] = 1 =>
            /\ dstTree'[Dst(f)] # Absent
            /\ dstTree'[Dst(f)].content = SubSeq(SrcOf(f), 1, pos[f]) ]_vars

\* C3: a run that reaches the final report prints counts that sum to the
\* number of enumerated files
C3_CountsSumToEnumerated ==
  pcMain = "done" => success_count + skipped_count + fail_count = Len(files)

\* C4: a failing primitive never makes a task end without an outcome, never
\* keeps another task from running, and never ends the run before the report
C4_FailureIsolated ==
  /\ pcMain # "crashed"
  /\ Started => \A f \in Tasks : pc[f] \notin {"raised", "cancelled"}

\* C5: every task owns at most one temporary file at any instant, and after
\* the Copy phase no temporary file is left for a Copied or Failed file
C5_TempFiles ==
  /\ Started =>
       \A f \in Tasks :
         Cardinality({p \in Paths : Exists(p) /\ dstTree[p].tmpOf = f}) <= 1
  /\ pcMain \in {"verify_after", "move", "done"} =>
       \A f \in Tasks : res[f] \in {0, 1} => ~TempExists(f)

\* reached: the run is over, one task failed after writing into its temporary
\* file and before renaming it, another one was copied
C5_Witness ==
  /\ pcMain = "done"
  /\ \E f, g \in Tasks :
       /\ res[f] = 0 /\ pos[f] > 0 /\ ~Exists(Dst(f)) /\ ~Exists(Tmp(f))
       /\ res[g] = 1

\* C6: a source file is gone only in move mode and only if its task returned
\* Copied; in the cleanup phase copied lists exactly the Copied tasks, once each
C6_MoveOnlyCopied ==
  Started =>
    /\ \A f \in Tasks :
         files[f].name \notin srcPresent => args.move /\ res[f] = 1
    /\ pcMain \in {"move", "done"} =>
         /\ {copied[i] : i \in 1..Len(copied)} = {f \in Tasks : res[f] = 1}
         /\ Len(copied) = Count(1)

\* reached: a move run is over, the Copied file's source is gone and the
\* source of a Skipped or Failed file is still there
C6_Witness ==
  /\ pcMain = "done"
  /\ args.move
  /\ \E f, g \in Tasks :
       /\ res[f] = 1 /\ files[f].name \notin srcPresent
       /\ res[g] \in {0, 2} /\ files[g].name \in srcPresent

\* C7: a destination whose task returned Skipped is what it was before the run
C7_SkippedUntouched ==
  Started =>
    \A f \in Tasks : res[f] = 2 => dstTree[Dst(f)] = tree0[Dst(f)]

C7_SkippedUntouched_Distinct == ~Collision => C7_SkippedUntouched

\* C8: the second run, over an unchanged source and with no failing
\* primitive, skips every file, writes nothing and advances the progress
\* counter to the total byte sum
C8_SecondRunSkipsAll ==
  run = 2 /\ pcMain = "done" /\ faults = 0 =>
    /\ \A f \in Tasks : res[f] = 2
    /\ dstTree = tree0
    /\ progress = total_bytes

C8_SecondRunSkipsAll_Distinct == ~Collision => C8_SecondRunSkipsAll

\* C9: plain benchmark mode never enters the Copy phase, writes no destination
\* file and deletes no source
C9_BenchmarkOnlyNoCopy ==
  args.benchmark /\ ~args.auto /\ ~args.ask =>
    /\ pcMain # "copy" /\ ~Started
    /\ dstTree = tree0
    /\ srcPresent = {walk[i].name : i \in 1..Len(walk)}

\* C10: with benchmark and ask the Copy phase is entered only after exactly
\* one prompt
C10_AskPromptsOnce ==
  args.benchmark /\ args.ask /\ (pcMain = "copy" \/ Started) => prompts = 1

\* C11: for every set of measured throughputs the safe selection is the first
\* grid combination minimising |threads-2| + |buffer-2|, which is (2, 2); the
\* recommendation printed is that one, and in auto mode the thread count, the
\* buffer size and verify-after are set from it before any copy task starts
C11_SafeSelection ==
  /\ pcMain = "scanned" =>
       \A sp \in [1..Len(Grid) -> Speeds] :
         LET r == Results(sp)
             i == CHOOSE i \in 1..Len(r) :
                    /\ \A j \in 1..Len(r) : SafeKey(r[i]) <= SafeKey(r[j])
                    /\ \A j \in 1..(i - 1) : SafeKey(r[j]) > SafeKey(r[i])
         IN /\ MinByKey(r) = r[i]
            /\ MinByKey(r)[1] = 2 /\ MinByKey(r)[2] = 2
  /\ recommended \in {{}, {<<"safe", 2, 2>>}}
  /\ (args.benchmark \/ args.auto) /\ (pcMain = "copy" \/ Started) =>
       recommended = {<<"safe", 2, 2>>}
  /\ args.auto /\ (pcMain = "copy" \/ Started) =>
       args.threads = 2 /\ args.buffer = 2 /\ args.verify_after

C11_Witness ==
  /\ args.auto /\ pcMain = "pool" /\ run = 1
  /\ sample_bytes > 0
  /\ args.threads = 2 /\ args.buffer = 2 /\ args.verify_after
  /\ \E f \in Tasks : Running(f)

\* C12: once the benchmark phase has run, a fast selection (the first grid
\* combination with the maximum measured MB/s) has been derived next to the
\* safe one
C12_FastSelection ==
  (args.benchmark \/ args.auto) /\ (pcMain = "copy" \/ Started) =>
    \E x \in recommended : x[1] = "fast"

\* C13: sample_files returns the longest prefix of its input whose length is
\* at most MAX_SAMPLE_FILES and whose cumulative size is at most
\* MAX_SAMPLE_BYTES, together with the exact sum of the sizes in that prefix
C13_SampleIsLongestPrefix ==
  pcMain = "sample_done" =>
    LET n == Len(sample)
        Fits(m) == /\ m <= MAX_SAMPLE_FILES
                   /\ SumSizes(SubSeq(files, 1, m)) <= MAX_SAMPLE_BYTES
    IN /\ n <= Len(files)
       /\ sample = SubSeq(files, 1, n)
       /\ Fits(n)
       /\ \A m \in (n + 1)..Len(files) : ~Fits(m)
       /\ sample_bytes = SumSizes(sample)

\* the byte cap cut the sample short: the next entry would have crossed it
C13_Witness ==
  /\ pcMain = "sample_done"
  /\ Len(sample) > 1 /\ Len(sample) < MAX_SAMPLE_FILES
  /\ Len(sample) < Len(files)
  /\ sample_bytes > 0 /\ sample_bytes < MAX_SAMPLE_BYTES

\* C14: a run with dry-run set stops at the scan summary whatever the other
\* flags are: nothing is enabled after it, no benchmark ran, no copy task
\* exists, nothing was verified, and the destination and the source are as
\* they were
C14_DryRunStops ==
  args.dry_run =>
    /\ pcMain \in {"start", "usage_error", "check_paths", "fatal", "scan",
                   "no_files", "scanned", "dry_done"}
    /\ pcMain = "dry_done" => ~ENABLED Next
    /\ recommended = {}
    /\ pc = <<>> /\ copied = <<>>
    /\ verifyErr = {} /\ loopIdx = 0
    /\ dstTree = tree0
    /\ srcPresent = {walk[i].name : i \in 1..Len(walk)}

C14_Witness ==
  /\ args.dry_run /\ pcMain = "dry_done"
  /\ args.benchmark /\ args.move /\ args.verify_after
  /\ Len(files) = 2 /\ total_bytes > 0

\* C15: a post-copy verification read happens only when every copy task is
\* done and no source was unlinked yet; a source is unlinked only in the move
\* phase with every copy task done; and the move phase is entered only from
\* the verification phase, after the last CopiedPair was verified
C15_PhaseOrder ==
  [][ /\ (pcMain = "verify_after" /\ pcMain' = "verify_after"
           /\ loopIdx' # loopIdx) =>
          /\ AllTasksDone
          /\ srcPresent = {walk[i].name : i \in 1..Len(walk)}
      /\ srcPresent' # srcPresent => pcMain = "move" /\ AllTasksDone
      /\ (pcMain # "move" /\ pcMain' = "move") =>
          /\ pcMain = "verify_after" /\ AllTasksDone
          /\ args.verify_after => loopIdx > Len(copied)
    ]_vars

C15_Witness ==
  /\ pcMain = "done" /\ args.move /\ args.verify_after /\ args.threads = MaxThreads
  /\ Len(copied) = 2
  /\ srcPresent = {}

\* C16: at most one task is inside total_bar.update at a time, a task is
\* inside it exactly when it holds the lock, and so the lock is held by no
\* task that is reading, writing, renaming, stat-ing or hashing
C16_AdvanceSerialized ==
  Started =>
    /\ lock \in Tasks \cup {0}
    /\ Cardinality({f \in Tasks : pc[f] \in {"skip_adv", "chunk_adv"}}) <= 1
    /\ \A f \in Tasks : pc[f] \in {"skip_adv", "chunk_adv"} <=> lock = f

C16_Witness ==
  /\ InCopyPhase
  /\ \E f, g \in Tasks :
       /\ f # g
       /\ pc[f] = "chunk_adv" /\ lock = f
       /\ pc[g] \in {"chunk_lock", "skip_lock"}

\* C17: every step of a worker task that appends to the copied list or
\* stores the skipped counter is taken by the task that holds the lock
C17_OutcomeStateLocked ==
  [][ InCopyPhase /\ (copied' # copied \/ skipped_count' # skipped_count) =>
        /\ lock # 0
        /\ pc[lock] # pc'[lock]
    ]_vars

\* C18 as claimed: in move mode with verify-after on, a CopiedPair whose
\* post-copy verification reported a mismatch or a read error keeps its source
C18_UnlinkOnlyVerified ==
  Started /\ args.move /\ args.verify_after =>
    \A f \in verifyErr : files[f].name \in srcPresent

\* C18 as amended: every iteration of the move loop whose unlink does not
\* fail removes the source of its CopiedPair, whether or not the post-copy
\* verification of that pair matched, and a source is removed by no other step
C18_UnlinkEveryCopied ==
  [][ /\ (pcMain = "move" /\ loopIdx' = loopIdx + 1 /\ faults' = faults) =>
          srcPresent' = srcPresent \ {files[copied[loopIdx]].name}
      /\ srcPresent' # srcPresent =>
          /\ pcMain = "move" /\ loopIdx' = loopIdx + 1
          /\ srcPresent' = srcPresent \ {files[copied[loopIdx]].name}
    ]_vars

C18_Witness ==
  /\ pcMain = "done" /\ args.move /\ args.verify_after
  /\ ~Collision
  /\ \E f \in verifyErr : files[f].name \notin srcPresent

\* C19 as claimed: when a task has returned Failed, its destination path
\* holds exactly what it held before the run started
C19_FailedLeavesDestination ==
  Started =>
    \A f \in Tasks :
      pc[f] = "done" /\ res[f] = 0 => dstTree[Dst(f)] = tree0[Dst(f)]

C19_FailedLeavesDestination_Distinct == ~Collision => C19_FailedLeavesDestination

\* C19 as amended: a step of a task changes the task's destination path only
\* when it is the rename or the timestamp propagation and it succeeds (the
\* task goes on, not to the except branch); the rename puts there what the
\* temporary path held.  So a failure before or in the rename leaves the
\* path as the task found it, and a failure after the rename leaves the
\* renamed content in place while the task returns Failed
C19_DestinationChangesOnlyByRename ==
  [][ InCopyPhase /\ pcMain' = pcMain =>
        \A f \in Tasks :
          pc'[f] # pc[f] /\ dstTree'[Dst(f)] # dstTree[Dst(f)] =>
            /\ pc[f] \in {"replace", "utime"}
            /\ pc'[f] # "cleanup"
            /\ pc[f] = "replace" =>
                 dstTree'[Dst(f)].content = dstTree[Tmp(f)].content
    ]_vars

\* a task failed after its rename: Failed, with the new content in place
C19_Witness ==
  /\ Started /\ ~Collision
  /\ \E f \in Tasks :
       /\ pc[f] = "done" /\ res[f] = 0
       /\ files[f].size > 0
       /\ Exists(Dst(f))
       /\ dstTree[Dst(f)].mtime \in {Now, SrcMtime}
       /\ sha256(dstTree[Dst(f)].content) = sha256(SrcOf(f))
       /\ ~Exists(Tmp(f))

\* C20: for two distinct enumerated files, the temporary path of one is
\* neither the destination path nor the temporary path of the other
C20_TempPathsDisjoint ==
  Started =>
    \A f, g \in Tasks : f # g => Tmp(f) \notin {Dst(g), Tmp(g)}
====
